---- MODULE Spec2Model ----
(***************************************************************************)
(* A model of the dspy-recommender service: the CRM history fetcher        *)
(* (customer_context.py), the query pipeline (rag_module.py and the older  *)
(* RAG class of main.py), the /recommend handler (main.py) and the batch   *)
(* ingestion entry points (product_ingestion.py, qdrant.py).               *)
(*                                                                         *)
(* Text is modelled as a sequence of tokens: a literal piece of a format   *)
(* string, a field value, or the newline token "\n".                       *)
(***************************************************************************)
EXTENDS Integers, Sequences, FiniteSets, TLC

\* ------------------------------------------------------------------ bounds
\* The most records one CRM response carries, over all five tables.
MaxRecords == 2
\* The most products a catalog holds.
MaxProducts == 2

\* ------------------------------------------------------- customer_context
\* The five tables in the order the function formats them.
Tables == <<"crm_init", "crm_allcall", "cust_likes", "crm_amccontracts", "sap_spu">>

\* The fields of a record that the format strings read, per table.
UsedFields(t) ==
    CASE t = "crm_init" ->
            {"ZZPROD_DESC", "zzinstall_date", "city1", "zzr3ser_no",
             "warrantydesc", "warranty_sdate", "warranty_edate"}
      [] t = "crm_allcall" ->
            {"Ticket", "Product", "Status", "PostingDate", "MachineStatus"}
      [] t = "cust_likes" -> {"textbox", "timestamp"}
      [] t = "crm_amccontracts" ->
            {"Amctype", "Cont_strt_dat", "Cont_end_dat", "zzmat_grp", "price"}
      [] t = "sap_spu" ->
            {"SPARE", "QUANTITY", "CRMTICKET", "MATDES", "MACHSTAT"}

\* One field every format string of the table reads; a record of kind "bad"
\* lacks it.
DroppedField(t) ==
    CASE t = "crm_init" -> "warranty_edate"
      [] t = "crm_allcall" -> "MachineStatus"
      [] t = "cust_likes" -> "timestamp"
      [] t = "crm_amccontracts" -> "price"
      [] t = "sap_spu" -> "MACHSTAT"

\* The kinds of record a response can carry: two complete records with
\* different values, and one that lacks an expected field.
GoodKinds == {"a", "b"}
RecordKinds == GoodKinds \cup {"bad"}

\* The record (a JSON object: field name -> value) of kind k in table t.
Rec(t, k) ==
    IF k = "bad"
    THEN [f \in UsedFields(t) \ {DroppedField(t)} |-> "x." \o f]
    ELSE [f \in UsedFields(t) |-> k \o "." \o f]

\* item[f]: the value, or a KeyError.
HasKey(item, f) == f \in DOMAIN item

\* The f-strings of the five loops, as token sequences.
FormatLine(t, item) ==
    CASE t = "crm_init" ->
            <<"Product: ", item["ZZPROD_DESC"],
              ", Installed on: ", item["zzinstall_date"],
              ", City: ", item["city1"],
              ", Serial: ", item["zzr3ser_no"],
              ", Warranty: ", item["warrantydesc"],
              " (", item["warranty_sdate"], " to ", item["warranty_edate"], ")">>
      [] t = "crm_allcall" ->
            <<"Service Ticket ", item["Ticket"], " for ", item["Product"],
              " was ", item["Status"], " on ", item["PostingDate"],
              ". Machine Status: ", item["MachineStatus"]>>
      [] t = "cust_likes" ->
            <<"Customer mentioned: '", item["textbox"], "' on ", item["timestamp"]>>
      [] t = "crm_amccontracts" ->
            <<"AMC Type: ", item["Amctype"],
              ", Valid from ", item["Cont_strt_dat"], " to ", item["Cont_end_dat"],
              ", Group: ", item["zzmat_grp"], ", Price: ", item["price"]>>
      [] t = "sap_spu" ->
            <<"Spare Used: ", item["SPARE"], " (Qty: ", item["QUANTITY"],
              ") in ticket ", item["CRMTICKET"], " for ", item["MATDES"],
              ". Machine Status: ", item["MACHSTAT"]>>

\* The two sentinel strings.
NoHistory == <<"No customer history found.">>
NoSignificantHistory == <<"No significant customer history found.">>

\* "\n".join(parts): the parts with a newline token between neighbours.
RECURSIVE Join(_)
Join(parts) ==
    IF parts = <<>> THEN <<>>
    ELSE IF Len(parts) = 1 THEN parts[1]
    ELSE parts[1] \o <<"\n">> \o Join(Tail(parts))

\* A table of the response body: absent, or a list of records (given by kind).
Cell(present, rows) == [present |-> present, rows |-> rows]

RECURSIVE KindSeqs(_)
KindSeqs(n) ==
    IF n = 0 THEN {<<>>}
    ELSE LET shorter == KindSeqs(n - 1)
         IN  shorter \cup {Append(s, k) : s \in {q \in shorter : Len(q) = n - 1},
                                          k \in RecordKinds}

Cells(budget) ==
    {Cell(FALSE, <<>>)} \cup {Cell(TRUE, rows) : rows \in KindSeqs(budget)}

\* The JSON objects of at most `budget` records: one cell per table, in the
\* order of Tables.
RECURSIVE Objects(_, _)
Objects(n, budget) ==
    IF n = 0 THEN {<<>>}
    ELSE UNION { {Append(rest, c) : rest \in Objects(n - 1, budget - Len(c.rows))}
                 : c \in Cells(budget) }

\* What the CRM call can come to: a network-level error, a status other than
\* 200, or a 200 whose body is not JSON, is JSON but not an object, or is
\* an object.
Statuses == {200, 204, 404, 500}
NoData == [i \in 1..Len(Tables) |-> Cell(FALSE, <<>>)]
CRMOutcome(net, status, body, data) ==
    [net |-> net, status |-> status, body |-> body, data |-> data]
CRMOutcomes ==
    {CRMOutcome("error", 0, "none", NoData)}
    \cup {CRMOutcome("ok", s, "none", NoData) : s \in Statuses \ {200}}
    \cup {CRMOutcome("ok", 200, "not_json", NoData)}
    \cup {CRMOutcome("ok", 200, "not_object", NoData)}
    \cup {CRMOutcome("ok", 200, "object", d) : d \in Objects(Len(Tables), MaxRecords)}

\* data.get(table, []): the rows of the table, none when it is absent.
Rows(data, i) == IF data[i].present THEN data[i].rows ELSE <<>>

\* Mutant of Visited: the tables are visited in the order the request payload
\* lists them (sap_spu before crm_amccontracts).
PayloadOrder == <<1, 2, 3, 5, 4>>
RECURSIVE Visited_payload_order(_, _)
Visited_payload_order(data, i) ==
    IF i > Len(Tables) THEN <<>>
    ELSE LET t == PayloadOrder[i]
         IN  [j \in 1..Len(Rows(data, t)) |-> <<Tables[t], Rec(Tables[t], Rows(data, t)[j])>>]
             \o Visited_payload_order(data, i + 1)

\* The records the five loops visit, in order: <<table, record>> pairs.
RECURSIVE Visited(_, _)
Visited(data, i) ==
    IF i > Len(Tables) THEN <<>>
    ELSE [j \in 1..Len(Rows(data, i)) |-> <<Tables[i], Rec(Tables[i], Rows(data, i)[j])>>]
         \o Visited(data, i + 1)

\* What a call of a function comes to.
Return(v) == [kind |-> "return", value |-> v, exc |-> "none"]
Raise(e) == [kind |-> "raise", value |-> <<>>, exc |-> e]

\* Mutant of FormatHistory: the join is returned even when there are no parts.
FormatHistory_no_sentinel(data) ==
    LET visited == Visited(data, 1)
    IN  IF \A j \in 1..Len(visited) : \A f \in UsedFields(visited[j][1]) : HasKey(visited[j][2], f)
        THEN Return(Join([j \in 1..Len(visited) |->
                            FormatLine(visited[j][1], visited[j][2])]))
        ELSE Raise("KeyError")

\* Mutant of FormatHistory: the failure sentinel is returned for an empty history.
FormatHistory_wrong_sentinel(data) ==
    LET visited == Visited(data, 1)
    IN  IF \A j \in 1..Len(visited) : \A f \in UsedFields(visited[j][1]) : HasKey(visited[j][2], f)
        THEN Return(IF visited # <<>>
                    THEN Join([j \in 1..Len(visited) |->
                                  FormatLine(visited[j][1], visited[j][2])])
                    ELSE NoHistory)
        ELSE Raise("KeyError")

\* The loops over data: history_parts, or the KeyError of the first record
\* that lacks a field its format string reads.
FormatHistory(data) ==
    LET visited == Visited(data, 1)
        ok(p) == \A f \in UsedFields(p[1]) : HasKey(p[2], f)
    IN  IF \A j \in 1..Len(visited) : ok(visited[j])
        THEN LET history_parts ==
                     [j \in 1..Len(visited) |-> FormatLine(visited[j][1], visited[j][2])]
             IN  Return(IF history_parts # <<>> THEN Join(history_parts)
                        ELSE NoSignificantHistory)
        ELSE Raise("KeyError")

\* Mutant of ExceptRequestException: no except clause, the error leaves the function.
ExceptRequestException_reraise(e) == Raise(e)

\* except requests.exceptions.RequestException: the sentinel; anything
\* else leaves the function. requests.post raises ConnectionError (or another
\* RequestException) on a network-level error, and response.json() raises
\* requests.exceptions.JSONDecodeError, a RequestException too, on a body that
\* is not JSON.
ExceptRequestException(e) ==
    IF e \in {"ConnectionError", "JSONDecodeError"}
    THEN Return(NoHistory)
    ELSE Raise(e)

\* Mutant of get_customer_history_context: a status other than 200 is
\* answered with the sentinel of the empty history.
get_customer_history_context_status_sentinel(crm) ==
    IF crm.net = "error" THEN ExceptRequestException("ConnectionError")
    ELSE IF crm.status # 200 THEN Return(NoSignificantHistory)
    ELSE IF crm.body = "not_json" THEN ExceptRequestException("JSONDecodeError")
    ELSE IF crm.body = "not_object" THEN ExceptRequestException("AttributeError")
    ELSE LET r == FormatHistory(crm.data)
         IN  IF r.kind = "raise" THEN ExceptRequestException(r.exc) ELSE r

get_customer_history_context(crm) ==
    IF crm.net = "error" THEN ExceptRequestException("ConnectionError")
    ELSE IF crm.status # 200 THEN Return(NoHistory)
    ELSE IF crm.body = "not_json" THEN ExceptRequestException("JSONDecodeError")
    ELSE IF crm.body = "not_object" THEN ExceptRequestException("AttributeError")
    ELSE LET r == FormatHistory(crm.data)
         IN  IF r.kind = "raise" THEN ExceptRequestException(r.exc) ELSE r

\* ------------------------------------------------------------ the pipeline
\* The language model and the retriever are capabilities: each call either
\* fails or yields a value determined by its inputs (the generation call
\* yields any of the Predictions).
Questions == {"q1"}
Customers == {"c1"}

\* dspy.ChainOfThought(EnhanceQuestion)(question=...).enhanced_question
EnhanceQuestion(question) == "enhanced(" \o question \o ")"
\* dspy.Retrieve(k)(query).passages
RetrievePassages(query) == <<"passage 1 for " \o query, "passage 2 for " \o query>>
\* dspy.ChainOfThought(summariseCustomerHistory)(customer_message=...)
SummariseCustomerHistory(customer_message) == [summary_of |-> customer_message]

\* The outputs of the RecommendProducts signature.
Recommendation(product_id, category, price) ==
    [product_id |-> product_id, model_name |-> "TL - RGS 7 kg Aqua",
     category |-> category, recommendation_type |-> "Up-sell", price |-> price,
     match_score |-> "0.9", reasons |-> "r", key_features |-> <<"f">>]
Prediction(persona, frequency, recs) ==
    [persona_name |-> persona, description |-> "d", key_characteristics |-> <<"k">>,
     frequency |-> frequency, preferred_categories |-> <<"Washing Machine">>,
     price_sensitivity |-> "high", maintenance_type |-> "reactive",
     common_issues |-> <<"i">>, price_range |-> "budget", features |-> <<"f">>,
     recommendations |-> recs]
Predictions ==
    {Prediction("Loyalist Platinum", "monthly",
                <<Recommendation("8903287021718", "Washing Machine", 29990)>>),
     Prediction("Loyalist Platinum", "monthly",
                <<Recommendation("8903287021718", "Television", 29990)>>),
     Prediction("Disengaged Iron", "yearly", <<>>)}

\* main.py 104: the Literal of ProductRecommendation.category.
Categories == {"Washing Machine", "Refrigerator", "Air Conditioner", "Dishwasher",
               "Microwave"}

\* The typed parse of the generation's output against the signature the RAG
\* class uses.  signatures.py 7 (rag_module.RAG) declares category: str, which
\* every string satisfies; main.py 104 (main.RAG) declares the Literal, which a
\* category outside it fails.
ConformsToSignature(i, p) ==
    i = "main" =>
        \A k \in 1..Len(p.recommendations) : p.recommendations[k].category \in Categories

\* The bodies a POST /recommend can carry: not JSON, or a JSON object with
\* some of the two keys.
RequestBody(json, keys, question, customer_id) ==
    [json |-> json, keys |-> keys, question |-> question, customer_id |-> customer_id]
Requests ==
    {RequestBody(FALSE, {}, "", "")}
    \cup {RequestBody(TRUE, {}, "", "")}
    \cup {RequestBody(TRUE, {"question"}, q, "") : q \in Questions}
    \cup {RequestBody(TRUE, {"customer_id"}, "", c) : c \in Customers}
    \cup {RequestBody(TRUE, {"question", "customer_id"}, q, c)
            : q \in Questions, c \in Customers}

\* The two RAG classes of the repository: rag_module.RAG and main.RAG.
Impls == {"rag_module", "main"}

NoException == [stage |-> "none", type |-> "none"]
NoResponse == [pending |-> TRUE]
NoRequest == RequestBody(FALSE, {}, "", "")
NoCRM == CRMOutcome("none", 0, "none", NoData)
NoPrediction == Prediction("none", "none", <<>>)
NoGenInput == [question |-> "", context |-> <<>>, customer_details |-> <<>>]

\* The key of "no memoisation".
NoKey == <<>>
EmptyCache == [k \in {} |-> NoResponse]
RequestKey(req) == <<req.question, req.customer_id>>

Memoised_by_payload(req) == IF req.json THEN RequestKey(req) ELSE NoKey

\* main.py 203-205: the decorators apply bottom-up.  app.post("/recommend")
\* registers the undecorated coroutine function as the route and hands it
\* back; lru_cache then wraps it, and only the module-level name recommend is
\* bound to the wrapper.  The router calls the function it registered, so a
\* request is memoised under no key.
Memoised(req) == NoKey

CacheStore(c, k, resp) == [x \in DOMAIN c \cup {k} |-> IF x = k THEN resp ELSE c[x]]

VARIABLES
    impl,              \* the RAG class the handler's rag object is an instance of
    pc,                \* the handler's position
    request,           \* the body of the request being handled
    new_question,      \* rag_module.RAG.forward: the enhanced question
    query,             \* the text handed to the retriever
    context,           \* the retrieved passages
    crm,               \* what the CRM call of this request came to
    customer_details,  \* the string get_customer_history_context returned
    customer_summary,  \* rag_module.RAG.forward: the summarisation's output
    gen_input,         \* the inputs of the generation call
    result,            \* the dspy.Prediction forward returned
    trace,             \* the stages this request has completed, in order
    exc,               \* the exception this request raised, and the stage
    response,          \* what the handler returned
    cache,             \* the store of the lru_cache wrapper: key -> stored response
    seen               \* the (question, customer_id) pairs answered with success so far

pipeVars == <<impl, pc, request, new_question, query, context, crm, customer_details,
              customer_summary, gen_input, result, trace, exc, response, cache, seen>>

VARIABLES
    backend,           \* the store of this deployment and its entry point
    catalog,           \* the product catalog file: the products, in file order
    reviews,           \* the review file handed to the entry point
    collection,        \* the collection: id -> stored point
    last_run           \* what the last ingestion run found and did

ingestVars == <<backend, catalog, reviews, collection, last_run>>

VARIABLES
    inflight           \* the concurrent requests: request id -> its handler's state

concVars == <<inflight>>

VARIABLES
    reconciler         \* the enrichment reconciler: its list, position and calls

reconVars == <<reconciler>>

VARIABLES
    max_chars,         \* the max_characters argument of the loader's call
    batch,             \* the batch size of the batched upsert
    load_result        \* what the loader's call came to

loadVars == <<max_chars, batch, load_result>>

\* What the request pipeline and the ingestion job leave alone.
auxVars == <<concVars, reconVars, loadVars>>

vars == <<pipeVars, ingestVars, auxVars>>

\* main.py: data = await request.json(); data["question"], data["customer_id"]
ParseRequest(req) ==
    IF ~req.json THEN Raise("JSONDecodeError")
    ELSE IF "question" \notin req.keys THEN Raise("KeyError: 'question'")
    ELSE IF "customer_id" \notin req.keys THEN Raise("KeyError: 'customer_id'")
    ELSE Return(<<req.question, req.customer_id>>)

\* Mutant of Catch: except KeyError, so any other exception leaves the handler.
Catch_KeyError_only(e) ==
    IF e \in {"KeyError", "KeyError: 'question'", "KeyError: 'customer_id'"}
    THEN [error |-> e]
    ELSE [unhandled |-> e]

\* main.py: except Exception as e: return {"error": str(e)}
Catch(e) == [error |-> e]

\* Mutant of ResultObject: service_history carries a frequency of its own.
ResultObject_own_service_frequency(r) ==
    [persona_name |-> r.persona_name,
     description |-> r.description,
     key_characteristics |-> r.key_characteristics,
     purchase_patterns |-> [frequency |-> r.frequency,
                            preferred_categories |-> r.preferred_categories,
                            price_sensitivity |-> r.price_sensitivity],
     service_history |-> [frequency |-> "service: " \o r.maintenance_type,
                          maintenance_type |-> r.maintenance_type,
                          common_issues |-> r.common_issues],
     preferences |-> [price_range |-> r.price_range, features |-> r.features],
     recommendations |-> r.recommendations]

\* main.py: the dictionary the handler returns on success.
ResultObject(r) ==
    [persona_name |-> r.persona_name,
     description |-> r.description,
     key_characteristics |-> r.key_characteristics,
     purchase_patterns |-> [frequency |-> r.frequency,
                            preferred_categories |-> r.preferred_categories,
                            price_sensitivity |-> r.price_sensitivity],
     service_history |-> [frequency |-> r.frequency,
                          maintenance_type |-> r.maintenance_type,
                          common_issues |-> r.common_issues],
     preferences |-> [price_range |-> r.price_range, features |-> r.features],
     recommendations |-> r.recommendations]

\* rag_module.RAG.forward / main.RAG.forward: the dspy.Prediction returned.
ForwardResult(prediction) ==
    Prediction(prediction.persona_name, prediction.frequency,
               prediction.recommendations)

PipeInit ==
    /\ impl \in Impls
    /\ pc = "idle"
    /\ request = NoRequest
    /\ new_question = ""
    /\ query = ""
    /\ context = <<>>
    /\ crm = NoCRM
    /\ customer_details = <<>>
    /\ customer_summary = SummariseCustomerHistory(<<>>)
    /\ gen_input = NoGenInput
    /\ result = NoPrediction
    /\ trace = <<>>
    /\ exc = NoException
    /\ response = NoResponse
    /\ cache = EmptyCache
    /\ seen = {}

\* An exception raised at `stage` reaches the handler's except clause, which
\* returns at once.
Fail(stage, e) ==
    /\ exc' = [stage |-> stage, type |-> e]
    /\ response' = Catch(e)
    /\ pc' = "responded"

Done(stage) == trace' = Append(trace, stage)

\* A request arrives.  A memoised call whose key is stored returns the stored
\* response and runs nothing; any other call starts the handler with fresh
\* locals.
Receive ==
    /\ pc \in {"idle", "responded"}
    /\ seen' = IF pc = "responded" /\ exc = NoException
               THEN seen \cup {RequestKey(request)} ELSE seen
    /\ \E req \in Requests :
          /\ request' = req
          /\ IF Memoised(req) # NoKey /\ Memoised(req) \in DOMAIN cache
             THEN /\ pc' = "responded"
                  /\ response' = cache[Memoised(req)]
             ELSE /\ pc' = "parse"
                  /\ response' = NoResponse
    /\ new_question' = ""
    /\ query' = ""
    /\ context' = <<>>
    /\ crm' = NoCRM
    /\ customer_details' = <<>>
    /\ customer_summary' = SummariseCustomerHistory(<<>>)
    /\ gen_input' = NoGenInput
    /\ result' = NoPrediction
    /\ trace' = <<>>
    /\ exc' = NoException
    /\ UNCHANGED <<impl, cache>>
    /\ UNCHANGED <<ingestVars, auxVars>>

\* main.py 207-208: the body is read and the two keys are looked up.
Parse ==
    /\ pc = "parse"
    /\ LET r == ParseRequest(request)
       IN  IF r.kind = "raise"
           THEN Fail("parse", r.exc) /\ UNCHANGED trace
           ELSE /\ pc' = IF impl = "rag_module" THEN "enhance" ELSE "retrieve"
                /\ UNCHANGED <<trace, exc, response>>
    /\ UNCHANGED <<ingestVars, auxVars, cache, seen>>
    /\ UNCHANGED <<impl, request, new_question, query, context, crm, customer_details,
                   customer_summary, gen_input, result>>

\* rag_module.py 19-21: question enhancement.
RM_Enhance ==
    /\ impl = "rag_module" /\ pc = "enhance"
    /\ \/ /\ new_question' = EnhanceQuestion(request.question)
          /\ Done("enhance")
          /\ pc' = "retrieve"
          /\ UNCHANGED <<exc, response>>
       \/ /\ Fail("enhance", "LMError")
          /\ UNCHANGED <<new_question, trace>>
    /\ UNCHANGED <<ingestVars, auxVars, cache, seen>>
    /\ UNCHANGED <<impl, request, query, context, crm, customer_details,
                   customer_summary, gen_input, result>>

\* Mutant of RM_Retrieve: a try/except around the retrieval, which goes on
\* with no passages.
RM_Retrieve_caught ==
    /\ impl = "rag_module" /\ pc = "retrieve"
    /\ query' = new_question
    /\ \/ /\ context' = RetrievePassages(new_question)
          /\ Done("retrieve")
          /\ UNCHANGED exc
       \/ /\ context' = <<>>
          /\ exc' = [stage |-> "retrieve", type |-> "IndexUnavailable"]
          /\ UNCHANGED trace
    /\ pc' = "fetch"
    /\ UNCHANGED response
    /\ UNCHANGED <<ingestVars, auxVars, cache, seen>>
    /\ UNCHANGED <<impl, request, new_question, crm, customer_details,
                   customer_summary, gen_input, result>>

\* rag_module.py 22-23: retrieval with the enhanced question; a failure of
\* the retriever is not caught here.
RM_Retrieve ==
    /\ impl = "rag_module" /\ pc = "retrieve"
    /\ query' = new_question
    /\ \/ /\ context' = RetrievePassages(new_question)
          /\ Done("retrieve")
          /\ pc' = "fetch"
          /\ UNCHANGED <<exc, response>>
       \/ /\ Fail("retrieve", "IndexUnavailable")
          /\ UNCHANGED <<context, trace>>
    /\ UNCHANGED <<ingestVars, auxVars, cache, seen>>
    /\ UNCHANGED <<impl, request, new_question, crm, customer_details,
                   customer_summary, gen_input, result>>

\* rag_module.py 25: the customer-history fetch.
RM_Fetch ==
    /\ impl = "rag_module" /\ pc = "fetch"
    /\ \E o \in CRMOutcomes :
         /\ crm' = o
         /\ LET r == get_customer_history_context(o)
            IN  IF r.kind = "return"
                THEN /\ customer_details' = r.value
                     /\ Done("fetch")
                     /\ pc' = "summarise"
                     /\ UNCHANGED <<exc, response>>
                ELSE /\ Fail("fetch", r.exc)
                     /\ UNCHANGED <<customer_details, trace>>
    /\ UNCHANGED <<ingestVars, auxVars, cache, seen>>
    /\ UNCHANGED <<impl, request, new_question, query, context, customer_summary,
                   gen_input, result>>

\* rag_module.py 26: history summarisation.
RM_Summarise ==
    /\ impl = "rag_module" /\ pc = "summarise"
    /\ \/ /\ customer_summary' = SummariseCustomerHistory(customer_details)
          /\ Done("summarise")
          /\ pc' = "recommend"
          /\ UNCHANGED <<exc, response>>
       \/ /\ Fail("summarise", "LMError")
          /\ UNCHANGED <<customer_summary, trace>>
    /\ UNCHANGED <<ingestVars, auxVars, cache, seen>>
    /\ UNCHANGED <<impl, request, new_question, query, context, crm, customer_details,
                   gen_input, result>>

\* rag_module.py 31-52: structured generation and the Prediction returned.
RM_Recommend ==
    /\ impl = "rag_module" /\ pc = "recommend"
    /\ gen_input' = [question |-> new_question, context |-> context,
                     customer_details |-> customer_summary]
    /\ \/ /\ \E p \in Predictions :
               ConformsToSignature(impl, p) /\ result' = ForwardResult(p)
          /\ Done("recommend")
          /\ pc' = "build"
          /\ UNCHANGED <<exc, response>>
       \/ /\ Fail("recommend", "LMError")
          /\ UNCHANGED <<result, trace>>
    /\ UNCHANGED <<ingestVars, auxVars, cache, seen>>
    /\ UNCHANGED <<impl, request, new_question, query, context, crm, customer_details,
                   customer_summary>>

\* main.py 135: retrieval with the raw question.
Main_Retrieve ==
    /\ impl = "main" /\ pc = "retrieve"
    /\ query' = request.question
    /\ \/ /\ context' = RetrievePassages(request.question)
          /\ Done("retrieve")
          /\ pc' = "fetch"
          /\ UNCHANGED <<exc, response>>
       \/ /\ Fail("retrieve", "IndexUnavailable")
          /\ UNCHANGED <<context, trace>>
    /\ UNCHANGED <<ingestVars, auxVars, cache, seen>>
    /\ UNCHANGED <<impl, request, new_question, crm, customer_details,
                   customer_summary, gen_input, result>>

\* main.py 136, 200-201: get_customer_details.
Main_Fetch ==
    /\ impl = "main" /\ pc = "fetch"
    /\ \E o \in CRMOutcomes :
         /\ crm' = o
         /\ LET r == get_customer_history_context(o)
            IN  IF r.kind = "return"
                THEN /\ customer_details' = r.value
                     /\ Done("fetch")
                     /\ pc' = "recommend"
                     /\ UNCHANGED <<exc, response>>
                ELSE /\ Fail("fetch", r.exc)
                     /\ UNCHANGED <<customer_details, trace>>
    /\ UNCHANGED <<ingestVars, auxVars, cache, seen>>
    /\ UNCHANGED <<impl, request, new_question, query, context, customer_summary,
                   gen_input, result>>

\* main.py 142-194: generation on the raw question and the raw history.
Main_Recommend ==
    /\ impl = "main" /\ pc = "recommend"
    /\ gen_input' = [question |-> request.question, context |-> context,
                     customer_details |-> customer_details]
    /\ \/ /\ \E p \in Predictions :
               ConformsToSignature(impl, p) /\ result' = ForwardResult(p)
          /\ Done("recommend")
          /\ pc' = "build"
          /\ UNCHANGED <<exc, response>>
       \/ /\ Fail("recommend", "LMError")
          /\ UNCHANGED <<result, trace>>
    /\ UNCHANGED <<ingestVars, auxVars, cache, seen>>
    /\ UNCHANGED <<impl, request, new_question, query, context, crm, customer_details,
                   customer_summary>>

\* main.py 209-228: the handler returns the result object; a memoised call
\* stores it under its key.
BuildResponse ==
    /\ pc = "build"
    /\ response' = ResultObject(result)
    /\ pc' = "responded"
    /\ cache' = IF Memoised(request) # NoKey
                THEN CacheStore(cache, Memoised(request), ResultObject(result))
                ELSE cache
    /\ UNCHANGED <<ingestVars, auxVars, seen>>
    /\ UNCHANGED <<impl, request, new_question, query, context, crm, customer_details,
                   customer_summary, gen_input, result, trace, exc>>

\* --------------------------------------------------------------- ingestion
\* product_ingestion.py 33 / qdrant.py 49: the default of max_characters.
max_characters == 2000
\* qdrant.py 131
batch_size == 100

Materials == {"M1"}
ModelNames == {"m1", "m2"}

\* A product of the catalog. material is the value under the key the loader
\* reads ('material_id' in product_ingestion.py, 'material' in qdrant.py), ""
\* when the product has no such key. The optional basic_info and
\* specifications keys are absent.
Product(material, model_name) ==
    [material |-> material, model_name |-> model_name, category |-> "Washing Machine"]
Products == {Product(m, n) : m \in Materials \cup {""}, n \in ModelNames}

\* The catalogs: one to MaxProducts products; the i-th product's key in the
\* products mapping is ProductKey(i).
ProductKey(i) == "P" \o ToString(i)
Catalogs == UNION {[1..n -> Products] : n \in 1..MaxProducts}

\* A line of the review file after line.strip().split('|'): its fields.
ReviewLine(m) == <<m, "asin." \o m, "url." \o m, "reviews." \o m>>
\* Lines whose field count is not four: a field missing, and a review text
\* holding the separator.
ShortLine == <<"M1", "asin.M1", "url.M1">>
LongLine == <<"M1", "asin.M1", "url.M1", "reviews", "M1">>

\* The review file: not given, or given with its lines after the header.
ReviewFile(given, lines) == [given |-> given, lines |-> lines]
ReviewFiles ==
    {ReviewFile(FALSE, <<>>), ReviewFile(TRUE, <<>>)}
    \cup {ReviewFile(TRUE, <<ReviewLine(m)>>) : m \in Materials}
    \cup {ReviewFile(TRUE, <<ShortLine>>)}
    \cup {ReviewFile(TRUE, <<ReviewLine(m), LongLine>>) : m \in Materials}
    \cup {ReviewFile(TRUE, <<ShortLine, ReviewLine(m)>>) : m \in Materials}

\* reviews_dict after the loop over well-formed lines: material_id ->
\* {asin, url, reviews}, a later line of a material overwriting an earlier one.
ReviewRecords(lines) ==
    [m \in {lines[k][1] : k \in 1..Len(lines)} |->
        LET last == CHOOSE k \in 1..Len(lines) :
                        /\ lines[k][1] = m
                        /\ \A l \in 1..Len(lines) : lines[l][1] = m => l <= k
        IN  [asin |-> lines[last][2], url |-> lines[last][3], reviews |-> lines[last][4]]]

\* Mutant of load_amazon_reviews: a line without four fields is skipped.
load_amazon_reviews_skipping(file) ==
    Return(ReviewRecords(SelectSeq(file.lines, LAMBDA line : Len(line) = 4)))

\* load_amazon_reviews: the four-name unpacking of a line without exactly
\* four fields raises ValueError, which nothing in the loader catches.
load_amazon_reviews(file) ==
    IF \E k \in 1..Len(file.lines) : Len(file.lines[k]) # 4
    THEN Raise("ValueError")
    ELSE Return(ReviewRecords(file.lines))

\* reviews_dict = load_amazon_reviews(reviews_path) if reviews_path else {}
ReviewsDict(file) ==
    IF file.given THEN load_amazon_reviews(file) ELSE Return(ReviewRecords(<<>>))

\* Mutant of Truncate: the cut goes back to the end of the last whole line.
Truncate_at_line(text, n) ==
    IF Len(text) <= n THEN text
    ELSE LET breaks == {k \in 1..n : text[k] = "\n"}
         IN  IF breaks = {} THEN <<>>
             ELSE SubSeq(text, 1, (CHOOSE k \in breaks : \A l \in breaks : l <= k) - 1)

\* text[:max_characters]
Truncate(text, n) == SubSeq(text, 1, IF Len(text) < n THEN Len(text) ELSE n)

\* The metadata record of one product.
Metadata(key, product, reviews_dict) ==
    [product_id |-> key, material_id |-> product.material,
     category |-> product.category, model_name |-> product.model_name,
     has_reviews |-> product.material \in DOMAIN reviews_dict]

\* str.strip(): leading and trailing whitespace is dropped.
Whitespace == {"", " ", "\n"}
RECURSIVE StripLeft(_)
StripLeft(text) ==
    IF text # <<>> /\ Head(text) \in Whitespace THEN StripLeft(Tail(text)) ELSE text
RECURSIVE StripRight(_)
StripRight(text) ==
    IF text # <<>> /\ text[Len(text)] \in Whitespace
    THEN StripRight(SubSeq(text, 1, Len(text) - 1)) ELSE text
Strip(text) == StripRight(StripLeft(text))

\* product_ingestion.py 44-63: the lines of one product's document; the
\* review block is appended when the product's material has a review record.
Lines(product, reviews_dict) ==
    LET base == << <<"Model: ", product.model_name>>, <<"Category: ", product.category>> >>
    IN  IF product.material \in DOMAIN reviews_dict
        THEN base \o << <<"--- Amazon Reviews ---">>,
                        <<"Customer Feedback: ", reviews_dict[product.material].reviews>>,
                        <<"Amazon URL: ", reviews_dict[product.material].url>> >>
        ELSE base

\* product_ingestion.py 65: "\n".join(lines).strip()[:max_characters]
DocumentOf(product, reviews_dict, cap) ==
    Truncate(Strip(Join(Lines(product, reviews_dict))), cap)

\* The document under the default max_characters.
Document(product, reviews_dict) == DocumentOf(product, reviews_dict, max_characters)

\* product_ingestion.load_and_process_products: (corpus, metadata)
load_and_process_products(cat, file, cap) ==
    LET loaded == ReviewsDict(file)
        reviews_dict == loaded.value
    IN  IF loaded.kind = "raise" THEN loaded
        ELSE Return([corpus |-> [i \in 1..Len(cat) |->
                                    DocumentOf(cat[i], reviews_dict, cap)],
                     metadata |-> [i \in 1..Len(cat) |->
                                      Metadata(ProductKey(i), cat[i], reviews_dict)]])

\* qdrant.load_and_process_products: the same, but the review block reads
\* the keys 'AI-reviews' and 'Product-url', which load_amazon_reviews never
\* sets: a product with a matching review record raises KeyError.
qdrant_load_and_process_products(cat, file, cap) ==
    LET loaded == ReviewsDict(file)
        reviews_dict == loaded.value
    IN  IF loaded.kind = "raise" THEN loaded
        ELSE IF \E i \in 1..Len(cat) : cat[i].material \in DOMAIN reviews_dict
        THEN Raise("KeyError: 'AI-reviews'")
        ELSE load_and_process_products(cat, file, cap)

\* main.py 62-76: the corpus main.py builds at import: the same lines
\* without a review block, cut at the module's max_characters.
main_corpus(cat, cap) ==
    [i \in 1..Len(cat) |-> DocumentOf(cat[i], ReviewsDict(ReviewFile(FALSE, <<>>)).value, cap)]

Point(document, metadata) == [document |-> document, metadata |-> metadata]
EmptyCollection == [i \in {} |-> Point(<<>>, <<>>)]
Count(coll) == Cardinality(DOMAIN coll)

\* collection.add / client.upsert of the points ids[k] -> points[k]
Upsert(coll, first_id, corpus, metadata) ==
    LET new == {first_id + k - 1 : k \in 1..Len(corpus)}
    IN  [i \in DOMAIN coll \cup new |->
            IF i \in new
            THEN Point(corpus[i - first_id + 1], metadata[i - first_id + 1])
            ELSE coll[i]]

\* Mutant of UpsertBatchesOf: the ids restart at 0 in every batch (id = i).
RECURSIVE UpsertBatches_batch_local_ids(_, _, _, _, _)
UpsertBatches_batch_local_ids(coll, i, corpus, metadata, bs) ==
    IF i >= Len(corpus) THEN [collection |-> coll, writes |-> 0]
    ELSE LET last == IF i + bs < Len(corpus) THEN i + bs ELSE Len(corpus)
             done == Upsert(coll, 0, SubSeq(corpus, i + 1, last),
                            SubSeq(metadata, i + 1, last))
             rest == UpsertBatches_batch_local_ids(done, i + bs, corpus, metadata, bs)
         IN  [collection |-> rest.collection, writes |-> rest.writes + 1]

\* qdrant.py 133-157: one upsert per batch of bs documents, the batch
\* starting at offset i taking the ids i, i+1, ... (id = idx + i).
RECURSIVE UpsertBatchesOf(_, _, _, _, _)
UpsertBatchesOf(coll, i, corpus, metadata, bs) ==
    IF i >= Len(corpus) THEN [collection |-> coll, writes |-> 0]
    ELSE LET last == IF i + bs < Len(corpus) THEN i + bs ELSE Len(corpus)
             done == Upsert(coll, i, SubSeq(corpus, i + 1, last),
                            SubSeq(metadata, i + 1, last))
             rest == UpsertBatchesOf(done, i + bs, corpus, metadata, bs)
         IN  [collection |-> rest.collection, writes |-> rest.writes + 1]

\* qdrant.py 131: the loop under batch_size = 100.
UpsertBatches(coll, i, corpus, metadata) ==
    UpsertBatchesOf(coll, i, corpus, metadata, batch_size)

Run(count_before, writes, before, after, raised) ==
    [ran |-> TRUE, count_before |-> count_before, writes |-> writes,
     unchanged |-> before = after, raised |-> raised]
NoRun == [ran |-> FALSE, count_before |-> 0, writes |-> 0, unchanged |-> TRUE,
          raised |-> FALSE]

Backends == {"chroma", "qdrant"}

IngestInit ==
    /\ backend \in Backends
    /\ catalog \in Catalogs
    /\ reviews \in ReviewFiles
    /\ collection = EmptyCollection
    /\ last_run = NoRun

\* The catalog file is edited between runs.
EditCatalog ==
    /\ \E c \in Catalogs \ {catalog} : catalog' = c
    /\ UNCHANGED <<backend, reviews, collection, last_run>>
    /\ UNCHANGED <<pipeVars, auxVars>>

\* The review file is replaced between runs.
EditReviews ==
    /\ \E r \in ReviewFiles \ {reviews} : reviews' = r
    /\ UNCHANGED <<backend, catalog, collection, last_run>>
    /\ UNCHANGED <<pipeVars, auxVars>>

\* product_ingestion.initialize_chroma: load and add only when the
\* collection is empty; an exception of the load leaves the function before
\* collection.add.
initialize_chroma ==
    /\ backend = "chroma"
    /\ IF Count(collection) = 0
       THEN LET call == load_and_process_products(catalog, reviews, max_characters)
                loaded == call.value
                after == Upsert(collection, 0, loaded.corpus, loaded.metadata)
            IN  IF call.kind = "raise"
                THEN /\ collection' = collection
                     /\ last_run' = Run(Count(collection), 0, collection, collection, TRUE)
                ELSE /\ collection' = after
                     /\ last_run' = Run(Count(collection), 1, collection, after, FALSE)
       ELSE /\ collection' = collection
            /\ last_run' = Run(Count(collection), 0, collection, collection, FALSE)
    /\ UNCHANGED <<backend, catalog, reviews>>
    /\ UNCHANGED <<pipeVars, auxVars>>

\* ingest_products.ingest_data -> qdrant.ingest_products: load, then upsert
\* every batch, whatever the collection holds.
ingest_products ==
    /\ backend = "qdrant"
    /\ LET loaded == qdrant_load_and_process_products(catalog, reviews, max_characters)
       IN  IF loaded.kind = "raise"
           THEN /\ collection' = collection
                /\ last_run' = Run(Count(collection), 0, collection, collection, TRUE)
           ELSE LET done == UpsertBatches(collection, 0, loaded.value.corpus,
                                          loaded.value.metadata)
                IN  /\ collection' = done.collection
                    /\ last_run' = Run(Count(collection), done.writes, collection,
                                       done.collection, FALSE)
    /\ UNCHANGED <<backend, catalog, reviews>>
    /\ UNCHANGED <<pipeVars, auxVars>>

\* ------------------------------------------------- the loaders, called
MaxCap == 8
MaxBatch == 2

\* The modules with a loader: product_ingestion ("chroma"), qdrant, main.
Loaders == Backends \cup {"main"}
NotLoaded == [kind |-> "none", value |-> <<>>, exc |-> "none"]

LoadInit ==
    /\ backend \in Loaders
    /\ catalog \in Catalogs
    /\ reviews \in ReviewFiles
    /\ collection = EmptyCollection
    /\ last_run = NoRun
    /\ max_chars \in 0..MaxCap
    /\ batch \in 1..MaxBatch
    /\ load_result = NotLoaded

\* The loader of the module is called on the catalog and the review file
\* with max_characters = max_chars.
load_products ==
    /\ load_result = NotLoaded
    /\ load_result' =
         IF backend = "chroma" THEN load_and_process_products(catalog, reviews, max_chars)
         ELSE IF backend = "qdrant"
         THEN qdrant_load_and_process_products(catalog, reviews, max_chars)
         ELSE Return([corpus |-> main_corpus(catalog, max_chars),
                      metadata |-> [i \in 1..Len(catalog) |-> <<>>]])
    /\ UNCHANGED <<ingestVars, max_chars, batch>>
    /\ UNCHANGED <<pipeVars, concVars, reconVars>>

\* The load_result corpus goes into the collection: product_ingestion.py 97-106
\* (one add, behind the emptiness guard), qdrant.py 131-157 (one upsert per
\* batch), main.py 84-87 (one add).
store_products ==
    /\ load_result.kind = "return"
    /\ ~last_run.ran
    /\ LET corpus == load_result.value.corpus
           metadata == load_result.value.metadata
           done == IF backend = "qdrant"
                   THEN UpsertBatchesOf(collection, 0, corpus, metadata, batch)
                   ELSE IF backend = "chroma" /\ Count(collection) # 0
                   THEN [collection |-> collection, writes |-> 0]
                   ELSE [collection |-> Upsert(collection, 0, corpus, metadata),
                         writes |-> 1]
       IN  /\ collection' = done.collection
           /\ last_run' = Run(Count(collection), done.writes, collection,
                              done.collection, FALSE)
    /\ UNCHANGED <<backend, catalog, reviews, loadVars>>
    /\ UNCHANGED <<pipeVars, concVars, reconVars>>

\* ---------------------------------------------------- concurrent requests
\* main.py 48
topk_docs_to_retrieve == 2

\* The product a query is about: what the embedding of the query is nearest to.
Mentions(q) == IF q \in {"q1", EnhanceQuestion("q1")} THEN "m1" ELSE "m2"
Relevance(document, q) ==
    IF \E k \in 1..Len(document) : document[k] = Mentions(q) THEN 1 ELSE 0

\* collection.query(query_texts=[q], n_results=k): the documents of the k
\* nearest points, nearest first; the call reads the collection only.
RECURSIVE Nearest(_, _, _, _)
Nearest(coll, ids, q, k) ==
    IF k = 0 \/ ids = {} THEN <<>>
    ELSE LET best == CHOOSE i \in ids : \A j \in ids :
                         \/ Relevance(coll[i].document, q) > Relevance(coll[j].document, q)
                         \/ /\ Relevance(coll[i].document, q) = Relevance(coll[j].document, q)
                            /\ i <= j
         IN  <<coll[best].document>> \o Nearest(coll, ids \ {best}, q, k - 1)
query_collection(coll, q, k) == Nearest(coll, DOMAIN coll, q, k)

\* main.py 80-87: the collection at the end of the import of main.py: the
\* corpus added under the ids 0, 1, ..., without metadata.
StartupIndex(cat) ==
    Upsert(EmptyCollection, 0, main_corpus(cat, max_characters),
           [i \in 1..Len(cat) |-> <<>>])

ReqIds == {"r1", "r2"}
ConcurrentQuestions == {"q1", "q2"}
\* The CRM outcomes of the concurrent requests: those without a history object.
ConcurrentCRM == {o \in CRMOutcomes : o.body # "object"}

IdleHandler ==
    [pc |-> "idle", question |-> "", query |-> "", context |-> <<>>,
     customer_details |-> <<>>, gen_input |-> NoGenInput, response |-> NoResponse]

ConcInit ==
    /\ impl \in Impls
    /\ catalog \in Catalogs
    /\ collection = StartupIndex(catalog)
    /\ inflight = [r \in ReqIds |-> IdleHandler]

\* What the handlers of the concurrent requests leave alone.
concFrame == <<pipeVars, ingestVars, reconVars, loadVars>>

Responded(r, e) == [inflight EXCEPT ![r].pc = "responded", ![r].response = Catch(e)]

\* A request arrives while others are in flight; its body is well-formed.
Conc_Receive ==
    /\ \E r \in ReqIds, q \in ConcurrentQuestions :
         /\ inflight[r].pc \in {"idle", "responded"}
         /\ inflight' = [inflight EXCEPT ![r] =
                [IdleHandler EXCEPT !.question = q,
                    !.pc = IF impl = "rag_module" THEN "enhance" ELSE "retrieve"]]
    /\ UNCHANGED concFrame

\* rag_module.py 19-21
Conc_Enhance ==
    /\ impl = "rag_module"
    /\ \E r \in ReqIds :
         /\ inflight[r].pc = "enhance"
         /\ \/ inflight' = [inflight EXCEPT ![r].pc = "retrieve",
                                ![r].query = EnhanceQuestion(inflight[r].question)]
            \/ inflight' = Responded(r, "LMError")
    /\ UNCHANGED concFrame

Conc_Retrieve_indexing ==
    /\ \E r \in ReqIds :
         /\ inflight[r].pc = "retrieve"
         /\ LET q == IF impl = "rag_module" THEN inflight[r].query ELSE inflight[r].question
            IN  /\ inflight' = [inflight EXCEPT ![r].pc = "fetch", ![r].query = q,
                        ![r].context = query_collection(collection, q, topk_docs_to_retrieve)]
                /\ collection' = Upsert(collection, Count(collection), << <<q>> >>, << <<>> >>)
    /\ UNCHANGED <<pipeVars, reconVars, loadVars, backend, catalog, reviews, last_run>>

\* rag_module.py 22-23 / main.py 135: self.retrieve(...).passages, a query of
\* the collection through the configured ChromadbRM.
Conc_Retrieve ==
    /\ \E r \in ReqIds :
         /\ inflight[r].pc = "retrieve"
         /\ LET q == IF impl = "rag_module" THEN inflight[r].query ELSE inflight[r].question
            IN  \/ inflight' = [inflight EXCEPT ![r].pc = "fetch", ![r].query = q,
                        ![r].context = query_collection(collection, q, topk_docs_to_retrieve)]
                \/ inflight' = Responded(r, "IndexUnavailable")
    /\ UNCHANGED concFrame

\* rag_module.py 25 / main.py 136
Conc_Fetch ==
    /\ \E r \in ReqIds, o \in ConcurrentCRM :
         /\ inflight[r].pc = "fetch"
         /\ LET res == get_customer_history_context(o)
            IN  IF res.kind = "return"
                THEN inflight' = [inflight EXCEPT ![r].customer_details = res.value,
                        ![r].pc = IF impl = "rag_module" THEN "summarise" ELSE "recommend"]
                ELSE inflight' = Responded(r, res.exc)
    /\ UNCHANGED concFrame

\* rag_module.py 26
Conc_Summarise ==
    /\ impl = "rag_module"
    /\ \E r \in ReqIds :
         /\ inflight[r].pc = "summarise"
         /\ \/ inflight' = [inflight EXCEPT ![r].pc = "recommend"]
            \/ inflight' = Responded(r, "LMError")
    /\ UNCHANGED concFrame

\* rag_module.py 32-52 / main.py 142-194, and the handler's return.
Conc_Recommend ==
    /\ \E r \in ReqIds :
         /\ inflight[r].pc = "recommend"
         /\ LET h == inflight[r]
                gen == [question |-> IF impl = "rag_module" THEN h.query ELSE h.question,
                        context |-> h.context,
                        customer_details |->
                            IF impl = "rag_module"
                            THEN SummariseCustomerHistory(h.customer_details)
                            ELSE h.customer_details]
            IN  \/ \E p \in {x \in Predictions : ConformsToSignature(impl, x)} :
                     inflight' = [inflight EXCEPT ![r].pc = "responded",
                                    ![r].gen_input = gen,
                                    ![r].response = ResultObject(ForwardResult(p))]
                \/ inflight' = [Responded(r, "LMError") EXCEPT ![r].gen_input = gen]
    /\ UNCHANGED concFrame

\* ------------------------------------------------- enrichment reconciler
\* The reconciler's code is not among the source files; it is modelled from
\* section 4.5 of the specification.
MaxRecommendations == 2

\* A price: a number, the null sentinel, or a raw string kept unparsed.
Number(n) == [kind |-> "number", number |-> n, text |-> <<>>]
Null == [kind |-> "null", number |-> 0, text |-> <<>>]
RawString(chars) == [kind |-> "raw", number |-> 0, text |-> chars]

\* The MRP strings of the pricing service, character by character:
\* "1,234.00", "599" and "N/A".
MRPs == { <<"1", ",", "2", "3", "4", ".", "0", "0">>, <<"5", "9", "9">>,
          <<"N", "/", "A">> }

Digits == <<"0", "1", "2", "3", "4", "5", "6", "7", "8", "9">>
IsDigit(c) == \E d \in 1..Len(Digits) : Digits[d] = c
DigitValue(c) == (CHOOSE d \in 1..Len(Digits) : Digits[d] = c) - 1

\* Strip the thousands separators.
RECURSIVE StripSeparators(_)
StripSeparators(chars) ==
    IF chars = <<>> THEN <<>>
    ELSE IF Head(chars) = "," THEN StripSeparators(Tail(chars))
    ELSE <<Head(chars)>> \o StripSeparators(Tail(chars))

\* Strip a trailing ".00".
StripCents(chars) ==
    IF Len(chars) >= 3 /\ SubSeq(chars, Len(chars) - 2, Len(chars)) = <<".", "0", "0">>
    THEN SubSeq(chars, 1, Len(chars) - 3) ELSE chars

RECURSIVE ToNumber(_, _)
ToNumber(chars, acc) ==
    IF chars = <<>> THEN acc
    ELSE ToNumber(Tail(chars), acc * Len(Digits) + DigitValue(Head(chars)))

\* Section 4.5, price fetch on HTTP 200: the MRP string converted to a
\* number; on parse failure the raw string is left.
parse_mrp(mrp) ==
    LET cleaned == StripCents(StripSeparators(mrp))
    IN  IF cleaned # <<>> /\ \A k \in 1..Len(cleaned) : IsDigit(cleaned[k])
        THEN Number(ToNumber(cleaned, 0))
        ELSE RawString(mrp)

\* What a call of the pricing endpoint comes to: an exception, or a status
\* with, on 200, the MRP string of the body.
PricingOutcome(raised, status, mrp) == [raised |-> raised, status |-> status, mrp |-> mrp]
PricingOutcomes ==
    {PricingOutcome(TRUE, 0, <<>>), PricingOutcome(FALSE, 500, <<>>)}
    \cup {PricingOutcome(FALSE, 200, m) : m \in MRPs}

fetch_price_keep_generated(generated, o) ==
    IF o.raised \/ o.status # 200 THEN generated ELSE parse_mrp(o.mrp)

\* Section 4.5, price fetch: the price the recommendation gets.
fetch_price(generated, o) ==
    IF o.raised \/ o.status # 200 THEN Null ELSE parse_mrp(o.mrp)

\* A recommendation as the reconciler sees it; material_id "" when the model
\* supplied none.
ReconRecommendation(material_id, product_id, price, amazon_url) ==
    [material_id |-> material_id, product_id |-> product_id, price |-> price,
     amazon_url |-> amazon_url]
Generated ==
    {ReconRecommendation(k[1], k[2], Number(29990), "http://generated")
        : k \in {<<"", "P1">>, <<"M1", "P1">>, <<"M9", "P1">>, <<"M9", "P9">>}}
RecommendationLists == UNION {[1..n -> Generated] : n \in 0..MaxRecommendations}

\* A metadata record; a field it does not carry is "".
MetaRecord(amazon_url, product_id) == [amazon_url |-> amazon_url, product_id |-> product_id]
\* The metadata store: the record found under a material_id and the one
\* found under a product_id, for the keys that have one.
MetaStore(by_material, by_product) == [by_material |-> by_material, by_product |-> by_product]
NoRecords == [k \in {} |-> MetaRecord("", "")]
MetaStores ==
    {MetaStore(m, p) :
        m \in {NoRecords} \cup {[k \in {"M1"} |-> r] :
                    r \in {MetaRecord("http://a", "P1c"), MetaRecord("http://a", ""),
                            MetaRecord("", "P1c")}},
        p \in {NoRecords} \cup {[k \in {"P1"} |-> r] :
                    r \in {MetaRecord("http://b", "")}}}

\* The calls the reconciler makes, as logged: the call, the position in the
\* list of the recommendation it is made for, and what it came to.
NoPricing == PricingOutcome(FALSE, 0, <<>>)
Lookup(name, i, answer) == [name |-> name, at |-> i, answer |-> answer, pricing |-> NoPricing]
PriceCall(i, o) == [name |-> "price", at |-> i, answer |-> "", pricing |-> o]

\* What the two metadata lookups of one recommendation come to: each is
\* answered, or fails.
LookupOutcomes == [material : {"ok", "error"}, product : {"ok", "error"}]

\* lookupByField(handle, "material_id", value) / (handle, "product_id", value)
Found(records, key) == key \in DOMAIN records
Answer(records, key, outcome) ==
    IF outcome = "error" THEN "error"
    ELSE IF Found(records, key) THEN "found" ELSE "nothing"

\* A failure inside one recommendation is absorbed: its price and url are nulled.
Absorbed(rec) == [rec EXCEPT !.amazon_url = "", !.price = Null]

\* The overwrite from a metadata record, of the fields the record carries.
Overlay(rec, m, with_product_id) ==
    [rec EXCEPT !.amazon_url = IF m.amazon_url # "" THEN m.amazon_url ELSE @,
                !.product_id = IF with_product_id /\ m.product_id # ""
                               THEN m.product_id ELSE @]

reconcile_one_both_lookups(rec, i, store, lk, o, price_on_fallback) ==
    LET m == IF Found(store.by_material, rec.material_id)
             THEN Overlay(rec, store.by_material[rec.material_id], TRUE) ELSE rec
        p == IF Found(store.by_product, rec.product_id)
             THEN Overlay(m, store.by_product[rec.product_id], FALSE) ELSE m
    IN  [rec |-> [p EXCEPT !.price = fetch_price(rec.price, o)],
         calls |-> <<Lookup("lookup_material", i, Answer(store.by_material, rec.material_id, "ok")),
                     Lookup("lookup_product", i, Answer(store.by_product, rec.product_id, "ok")),
                     PriceCall(i, o)>>]

\* Section 4.5: the reconciliation of the i-th recommendation: the
\* recommendation it leaves and the calls it makes.
reconcile_one(rec, i, store, lk, o, price_on_fallback) ==
    LET has_material == rec.material_id # ""
        material == Answer(store.by_material, rec.material_id, lk.material)
        product == Answer(store.by_product, rec.product_id, lk.product)
        by_material == IF has_material THEN <<Lookup("lookup_material", i, material)>> ELSE <<>>
        by_product == by_material \o <<Lookup("lookup_product", i, product)>>
    IN  IF has_material /\ material = "error"
        THEN [rec |-> Absorbed(rec), calls |-> by_material]
        ELSE IF has_material /\ material = "found"
        THEN LET m == Overlay(rec, store.by_material[rec.material_id], TRUE)
             IN  [rec |-> [m EXCEPT !.price = fetch_price(rec.price, o)],
                  calls |-> by_material \o <<PriceCall(i, o)>>]
        ELSE IF product = "error"
        THEN [rec |-> Absorbed(rec), calls |-> by_product]
        ELSE LET p == IF product = "found"
                      THEN Overlay(rec, store.by_product[rec.product_id], FALSE) ELSE rec
             IN  IF price_on_fallback
                 THEN [rec |-> [p EXCEPT !.price = fetch_price(rec.price, o)],
                       calls |-> by_product \o <<PriceCall(i, o)>>]
                 ELSE [rec |-> p, calls |-> by_product]

\* The reconciler at rest, and at the start of reconcile(recommendations).
Reconciler(input, store, price_on_fallback) ==
    [input |-> input, recs |-> input, done |-> 0, calls |-> <<>>,
     store |-> store, price_on_fallback |-> price_on_fallback, returned |-> FALSE]
ReconIdle == Reconciler(<<>>, MetaStore(NoRecords, NoRecords), FALSE)

\* reconcile is called with the list the model generated. Whether the
\* fallback branch also fetches the price is left open by section 4.5: both
\* readings are drawn.
ReconInit ==
    reconciler \in {Reconciler(l, st, f) :
                       l \in RecommendationLists, st \in MetaStores, f \in BOOLEAN}

reconFrame == <<pipeVars, ingestVars, concVars, loadVars>>

reconcile_next_aborting ==
    /\ ~reconciler.returned
    /\ reconciler.done < Len(reconciler.recs)
    /\ \E lk \in LookupOutcomes, o \in PricingOutcomes :
         LET i == reconciler.done + 1
             r == reconcile_one(reconciler.recs[i], i, reconciler.store, lk, o,
                                reconciler.price_on_fallback)
             failed == \E k \in 1..Len(r.calls) :
                           \/ r.calls[k].answer = "error"
                           \/ r.calls[k].name = "price" /\ r.calls[k].pricing.status # 200
         IN  reconciler' = [reconciler EXCEPT
                              !.recs = IF failed THEN @ ELSE [@ EXCEPT ![i] = r.rec],
                              !.done = IF failed THEN Len(reconciler.recs) ELSE i,
                              !.calls = @ \o r.calls]
    /\ UNCHANGED reconFrame

\* Section 4.5: the loop body, run for the next recommendation of the list.
reconcile_next ==
    /\ ~reconciler.returned
    /\ reconciler.done < Len(reconciler.recs)
    /\ \E lk \in LookupOutcomes, o \in PricingOutcomes :
         LET i == reconciler.done + 1
             r == reconcile_one(reconciler.recs[i], i, reconciler.store, lk, o,
                                reconciler.price_on_fallback)
         IN  reconciler' = [reconciler EXCEPT
                              !.recs[i] = r.rec,
                              !.done = i,
                              !.calls = @ \o r.calls]
    /\ UNCHANGED reconFrame

\* The loop is over: reconcile returns the list.
reconcile_return ==
    /\ ~reconciler.returned
    /\ reconciler.done = Len(reconciler.recs)
    /\ reconciler' = [reconciler EXCEPT !.returned = TRUE]
    /\ UNCHANGED reconFrame

\* ------------------------------------------------------- the specifications
\* The request-serving process: the ingestion state is left alone.
IngestIdle ==
    /\ backend = "chroma"
    /\ catalog = <<Product("", "m1")>>
    /\ reviews = ReviewFile(FALSE, <<>>)
    /\ collection = EmptyCollection
    /\ last_run = NoRun

\* The batch job: no request is in flight.
PipeIdle ==
    /\ impl = "rag_module"
    /\ pc = "idle"
    /\ request = NoRequest
    /\ new_question = ""
    /\ query = ""
    /\ context = <<>>
    /\ crm = NoCRM
    /\ customer_details = <<>>
    /\ customer_summary = SummariseCustomerHistory(<<>>)
    /\ gen_input = NoGenInput
    /\ result = NoPrediction
    /\ trace = <<>>
    /\ exc = NoException
    /\ response = NoResponse
    /\ cache = EmptyCache
    /\ seen = {}

\* No concurrent request is in flight.
ConcIdle == inflight = [r \in ReqIds |-> IdleHandler]

\* No loader call is under way.
LoadIdle == max_chars = max_characters /\ batch = batch_size /\ load_result = NotLoaded

Init == PipeInit /\ IngestIdle /\ ConcIdle /\ reconciler = ReconIdle /\ LoadIdle

Next ==
    \/ Receive
    \/ Parse
    \/ RM_Enhance
    \/ RM_Retrieve
    \/ RM_Fetch
    \/ RM_Summarise
    \/ RM_Recommend
    \/ Main_Retrieve
    \/ Main_Fetch
    \/ Main_Recommend
    \/ BuildResponse

Spec == Init /\ [][Next]_vars

InitIngest == IngestInit /\ PipeIdle /\ ConcIdle /\ reconciler = ReconIdle /\ LoadIdle

NextIngest ==
    \/ EditCatalog
    \/ EditReviews
    \/ initialize_chroma
    \/ ingest_products

SpecIngest == InitIngest /\ [][NextIngest]_vars

\* The serving process under concurrent requests: the pipeline variables of
\* the single-request view, save impl, stay at rest.
InitConc ==
    /\ ConcInit
    /\ pc = "idle" /\ request = NoRequest /\ new_question = "" /\ query = ""
    /\ context = <<>> /\ crm = NoCRM /\ customer_details = <<>>
    /\ customer_summary = SummariseCustomerHistory(<<>>) /\ gen_input = NoGenInput
    /\ result = NoPrediction /\ trace = <<>> /\ exc = NoException
    /\ response = NoResponse /\ cache = EmptyCache /\ seen = {}
    /\ backend = "chroma" /\ reviews = ReviewFile(FALSE, <<>>) /\ last_run = NoRun
    /\ reconciler = ReconIdle /\ LoadIdle

NextConc ==
    \/ Conc_Receive
    \/ Conc_Enhance
    \/ Conc_Retrieve
    \/ Conc_Fetch
    \/ Conc_Summarise
    \/ Conc_Recommend

SpecConc == InitConc /\ [][NextConc]_vars

\* The reconciler on its own: a list generated by the model is reconciled.
InitReconcile == ReconInit /\ PipeIdle /\ IngestIdle /\ ConcIdle /\ LoadIdle

NextReconcile ==
    \/ reconcile_next
    \/ reconcile_return

SpecReconcile == InitReconcile /\ [][NextReconcile]_vars

\* A loader is called, with its cap and batch size, and its corpus stored in
\* an empty collection.
InitLoad == LoadInit /\ PipeIdle /\ ConcIdle /\ reconciler = ReconIdle

NextLoad ==
    \/ load_products
    \/ store_products

SpecLoad == InitLoad /\ [][NextLoad]_vars

\* ------------------------------------------------------------------ claims
Range(seq) == {seq[i] : i \in 1..Len(seq)}

\* The CRM call of the request in hand has been made.
Fetched == crm # NoCRM
\* It failed: a network-level error, or a status other than 200.
CRMFailed == Fetched /\ (crm.net = "error" \/ crm.status # 200)
\* It answered 200 with a JSON object.
CRMObject == Fetched /\ crm.net = "ok" /\ crm.status = 200 /\ crm.body = "object"
\* The records of the response, over all tables.
RECURSIVE RecordCount(_, _)
RecordCount(data, i) ==
    IF i > Len(data) THEN 0 ELSE Len(Rows(data, i)) + RecordCount(data, i + 1)
\* The fetcher returned (it did not raise).
FetchReturned == Fetched /\ exc.stage # "fetch"

\* text.split("\n")
RECURSIVE SplitLines(_)
SplitLines(text) ==
    IF "\n" \notin Range(text) THEN <<text>>
    ELSE LET k == CHOOSE i \in 1..Len(text) :
                      text[i] = "\n" /\ \A j \in 1..(i - 1) : text[j] # "\n"
         IN  <<SubSeq(text, 1, k - 1)>> \o SplitLines(SubSeq(text, k + 1, Len(text)))

\* A text is non-empty when it has a character: a token that is not "".
NonEmptyText(text) == \E i \in 1..Len(text) : text[i] # ""

\* The keys of the complete result object.
ResultKeys == {"persona_name", "description", "key_characteristics",
               "purchase_patterns", "service_history", "preferences",
               "recommendations"}
FullResult(r) ==
    /\ DOMAIN r = ResultKeys
    /\ DOMAIN r.purchase_patterns = {"frequency", "preferred_categories", "price_sensitivity"}
    /\ DOMAIN r.service_history = {"frequency", "maintenance_type", "common_issues"}
    /\ DOMAIN r.preferences = {"price_range", "features"}

\* C1: get_customer_history_context never raises to its caller: whatever the
\* CRM call comes to, the call returns a string. (Violated: a record that
\* lacks a field, or a body that is not an object, raises.)
C1_FetcherNeverRaises == exc.stage # "fetch"

\* C2: an ingestion run against a collection of nonzero count performs no
\* write and leaves the collection as it was. (Violated by qdrant.ingest_products.)
C2_NoWriteWhenNonEmpty ==
    (last_run.ran /\ last_run.count_before > 0)
        => (last_run.writes = 0 /\ last_run.unchanged)

\* C3: a successful request has run question enhancement, retrieval, the
\* customer-history fetch, history summarisation and structured generation, in
\* that order, skipping none. (Violated by main.RAG.forward.)
FiveStages == <<"enhance", "retrieve", "fetch", "summarise", "recommend">>
C3_AllStagesInOrder ==
    (pc = "responded" /\ exc = NoException) => trace = FiveStages

\* C4: every exception raised while a /recommend request is handled is
\* returned as the object {error: str(e)}; a request ends with the complete
\* result object or with the error object, nothing is returned before the end,
\* and the next request can be received.
C4_ErrorEnvelope ==
    /\ pc # "responded" => (response = NoResponse /\ exc = NoException)
    /\ pc = "responded" =>
          /\ \/ exc = NoException /\ FullResult(response)
             \/ exc # NoException /\ response = [error |-> exc.type]
          /\ ENABLED Receive
C4_Witness ==
    /\ pc = "responded"
    /\ exc.stage = "fetch"
    /\ response = [error |-> "KeyError"]

\* C5: when the CRM call fails with a network-level error or answers a status
\* other than 200, the fetcher returns exactly "No customer history found.".
C5_FailureSentinel ==
    CRMFailed => (FetchReturned /\ customer_details = NoHistory)
C5_Witness ==
    /\ CRMFailed /\ crm.net = "ok" /\ crm.status = 204
    /\ customer_details = NoHistory

\* C6: on a 200 whose five tables are all empty or absent the fetcher returns
\* exactly "No significant customer history found."; with at least one record
\* in any table it returns neither sentinel.
C6_EmptySentinel ==
    CRMObject =>
        IF RecordCount(crm.data, 1) = 0
        THEN FetchReturned /\ customer_details = NoSignificantHistory
        ELSE customer_details \notin {NoHistory, NoSignificantHistory}
C6_Witness ==
    /\ CRMObject
    /\ crm.data[1].present /\ crm.data[1].rows = <<>> /\ ~crm.data[2].present
    /\ RecordCount(crm.data, 1) = 0
    /\ customer_details = NoSignificantHistory

\* C7: on a 200 the returned string has exactly one line per record; the
\* lines come in the order install records, service calls, customer notes,
\* AMC contracts, spare-part usage, each group in the order of the response,
\* and an absent table gives no line. With no record at all there is no
\* record line: the string is the sentinel of the empty history.
ClaimedOrder == <<"crm_init", "crm_allcall", "cust_likes", "crm_amccontracts", "sap_spu">>
LinePrefix(t) ==
    CASE t = "crm_init" -> "Product: "
      [] t = "crm_allcall" -> "Service Ticket "
      [] t = "cust_likes" -> "Customer mentioned: '"
      [] t = "crm_amccontracts" -> "AMC Type: "
      [] t = "sap_spu" -> "Spare Used: "
\* The rows the response lists for the table named t.
RowsOf(data, t) == Rows(data, CHOOSE i \in 1..Len(Tables) : Tables[i] = t)
\* The position in ClaimedOrder of the group a line belongs to.
GroupOf(line) == CHOOSE g \in 1..Len(ClaimedOrder) : LinePrefix(ClaimedOrder[g]) = line[1]
C8_SummaryInputNonEmpty ==
    /\ pc = "summarise" => NonEmptyText(customer_details)
    /\ "summarise" \in Range(trace) => NonEmptyText(customer_summary.summary_of)
C8_Witness ==
    /\ "summarise" \in Range(trace)
    /\ CRMObject /\ RecordCount(crm.data, 1) = 0
    /\ customer_summary.summary_of = NoSignificantHistory

\* C9: when the CRM call fails and every other stage succeeds, the request
\* runs summarisation and generation on the sentinel string and ends with the
\* full result object, not the error object. (main.RAG.forward has no
\* summarisation stage: there generation runs on the sentinel itself.)
C9_CRMFailureAbsorbed ==
    (pc = "responded" /\ CRMFailed /\ exc.stage \in {"none", "fetch"}) =>
        /\ FullResult(response)
        /\ "error" \notin DOMAIN response
        /\ "recommend" \in Range(trace)
        /\ IF impl = "rag_module"
           THEN /\ trace = FiveStages
                /\ customer_summary.summary_of = NoHistory
                /\ gen_input.customer_details = customer_summary
           ELSE gen_input.customer_details = NoHistory
C9_Witness ==
    /\ pc = "responded" /\ impl = "rag_module"
    /\ crm.net = "error"
    /\ FullResult(response)
    /\ customer_summary.summary_of = NoHistory

\* C10: a retrieval failure is not caught by the orchestrator: the request
\* ends there with the error object, and the history fetch, summarisation and
\* generation stages are not executed.
C10_RetrievalFailureFatal ==
    exc.stage = "retrieve" =>
        /\ pc = "responded"
        /\ response = [error |-> exc.type]
        /\ ~Fetched
        /\ Range(trace) \cap {"fetch", "summarise", "recommend"} = {}
        /\ gen_input = NoGenInput
C10_Witness ==
    /\ pc = "responded" /\ impl = "rag_module"
    /\ exc.stage = "retrieve"
    /\ trace = <<"enhance">>

\* The stages a successful call of forward completes, per RAG class.
StagesOf(i) == IF i = "rag_module" THEN FiveStages
               ELSE <<"retrieve", "fetch", "recommend">>

\* C11: nothing is cached across requests.  The lru_cache store stays empty,
\* and every request answered with success ran every stage of its pipeline
\* itself and returns the result object of its own run, also when an earlier
\* request carried the same question and customer_id.
C11_NothingCached ==
    /\ cache = EmptyCache
    /\ (pc = "responded" /\ exc = NoException) =>
          /\ trace = StagesOf(impl)
          /\ response = ResultObject(result)
    /\ (pc = "responded" /\ exc # NoException) => response = Catch(exc.type)

\* Witness: a second request with the payload of an earlier successful one
\* has been answered after running all its stages.
C11_Witness ==
    /\ pc = "responded" /\ exc = NoException
    /\ RequestKey(request) \in seen
    /\ trace = StagesOf(impl)

\* The text a request's retrieval queries the collection with.
QueryOf(h) == IF impl = "rag_module" THEN EnhanceQuestion(h.question) ELSE h.question
\* The request has got past its retrieval.
Retrieved(h) ==
    \/ h.pc \in {"fetch", "summarise", "recommend"}
    \/ h.pc = "responded" /\ h.gen_input # NoGenInput
\* What the request's retrieval yields when it runs alone against the
\* collection the startup ingestion left.
AloneContext(h) ==
    query_collection(StartupIndex(catalog), QueryOf(h), topk_docs_to_retrieve)

\* C12: no request mutates the vector index.  Under every interleaving of the
\* concurrent requests the collection holds what the startup ingestion left,
\* and every request that has retrieved holds, and generates from, the
\* passages it would have got running alone against that content.
C12_IndexNeverMutated ==
    /\ collection = StartupIndex(catalog)
    /\ \A r \in ReqIds :
          /\ Retrieved(inflight[r]) => inflight[r].context = AloneContext(inflight[r])
          /\ inflight[r].gen_input # NoGenInput =>
                inflight[r].gen_input.context = AloneContext(inflight[r])

\* Witness: one request has been answered with success while another one,
\* with a different question and different passages, is past its retrieval.
C12_Witness ==
    /\ inflight["r1"].pc = "responded"
    /\ "error" \notin DOMAIN inflight["r1"].response
    /\ inflight["r2"].pc \in {"fetch", "summarise", "recommend"}
    /\ inflight["r1"].question # inflight["r2"].question
    /\ inflight["r1"].context # inflight["r2"].context
    /\ Len(inflight["r1"].context) = topk_docs_to_retrieve

\* The calls made for the i-th recommendation, and whether one of a name,
\* or with an answer, is among them.
CallsAt(i) == SelectSeq(reconciler.calls, LAMBDA c : c.at = i)
Made(name, i) == \E k \in 1..Len(reconciler.calls) :
                    reconciler.calls[k].name = name /\ reconciler.calls[k].at = i
Answered(name, i, answer) ==
    \E k \in 1..Len(reconciler.calls) :
        /\ reconciler.calls[k].name = name /\ reconciler.calls[k].at = i
        /\ reconciler.calls[k].answer = answer
\* The pricing call made for the i-th recommendation failed.
PricingFailed(c) == c.name = "price" /\ (c.pricing.raised \/ c.pricing.status # 200)

\* C13: reconciler precedence.  For every reconciled recommendation whose
\* material_id lookup found a record, amazon_url and product_id hold the
\* record's values where the record carries them, the price fetch was
\* attempted and no product_id-keyed lookup was made; a product_id-keyed
\* lookup was made only for a recommendation without material_id or whose
\* material_id lookup found nothing.
C13_Precedence ==
    \A i \in 1..reconciler.done :
        /\ Answered("lookup_material", i, "found") =>
              LET m == reconciler.store.by_material[reconciler.input[i].material_id]
              IN  /\ m.amazon_url # "" => reconciler.recs[i].amazon_url = m.amazon_url
                  /\ m.product_id # "" => reconciler.recs[i].product_id = m.product_id
                  /\ Made("price", i)
                  /\ ~Made("lookup_product", i)
        /\ Made("lookup_product", i) =>
              \/ reconciler.input[i].material_id = ""
              \/ Answered("lookup_material", i, "nothing")

\* Witness: the list is reconciled; its first recommendation matched by
\* material_id a record carrying both fields, while the store also holds a
\* record under its product_id; its second was looked up by product_id
\* after its material_id found nothing.
C13_Witness ==
    /\ reconciler.returned /\ reconciler.done = 2
    /\ Answered("lookup_material", 1, "found")
    /\ reconciler.recs[1].amazon_url = "http://a"
    /\ reconciler.recs[1].product_id = "P1c"
    /\ reconciler.input[1].product_id \in DOMAIN reconciler.store.by_product
    /\ Answered("lookup_material", 2, "nothing")
    /\ Answered("lookup_product", 2, "found")

\* C14: reconciler price overwrite.  After a pricing call that raised or
\* returned a status other than 200 the recommendation's price is the null
\* sentinel, whatever the model generated; after a 200 with the MRP
\* "1,234.00" it is the number 1234.
C14_PriceOverwrite ==
    \A k \in 1..Len(reconciler.calls) :
        LET c == reconciler.calls[k]
        IN  /\ PricingFailed(c) => reconciler.recs[c.at].price = Null
            /\ (c.name = "price" /\ ~PricingFailed(c)
                 /\ c.pricing.mrp = <<"1", ",", "2", "3", "4", ".", "0", "0">>) =>
                  reconciler.recs[c.at].price = Number(1234)

\* Witness: the pricing call of the first recommendation failed and its
\* generated price is gone; the one of the second returned "1,234.00".
C14_Witness ==
    /\ reconciler.returned /\ reconciler.done = 2
    /\ \E k \in 1..Len(reconciler.calls) :
          PricingFailed(reconciler.calls[k]) /\ reconciler.calls[k].at = 1
    /\ reconciler.input[1].price = Number(29990)
    /\ reconciler.recs[1].price = Null
    /\ reconciler.recs[2].price = Number(1234)

\* The positions of the calls never go back.
InListOrder ==
    \A k \in 1..Len(reconciler.calls) : \A l \in k..Len(reconciler.calls) :
        reconciler.calls[k].at <= reconciler.calls[l].at
\* The call fails: a lookup that raises, or a pricing call that raises or
\* returns a status other than 200.
FailedCall(c) == c.answer = "error" \/ PricingFailed(c)

\* C15: reconciliation processes every recommendation of the list, in list
\* order, exactly once.  The calls are made in list order, each call at most
\* once per recommendation; the recommendations not yet reached are as
\* generated; whatever failed on the way, the loop goes on (it returns only
\* after the last recommendation) and, once it has returned, calls have been
\* made for every recommendation of the list.
C15_EveryRecommendationOnce ==
    /\ Len(reconciler.recs) = Len(reconciler.input)
    /\ reconciler.done <= Len(reconciler.input)
    /\ InListOrder
    /\ \A i \in 1..Len(reconciler.input) :
          /\ \A k, l \in 1..Len(CallsAt(i)) :
                CallsAt(i)[k].name = CallsAt(i)[l].name => k = l
          /\ i <= reconciler.done <=> CallsAt(i) # <<>>
          /\ i > reconciler.done => reconciler.recs[i] = reconciler.input[i]
    /\ reconciler.returned => reconciler.done = Len(reconciler.input)
    /\ (~reconciler.returned /\ reconciler.done < Len(reconciler.input)) =>
          ENABLED reconcile_next

\* Witness: the lookup of the first recommendation raised, and the second
\* was reconciled all the same, its price fetched.
C15_Witness ==
    /\ reconciler.returned /\ reconciler.done = 2
    /\ \E k \in 1..Len(CallsAt(1)) : FailedCall(CallsAt(1)[k])
    /\ reconciler.recs[1].price = Null
    /\ Made("price", 2)
    /\ reconciler.recs[2].price.kind = "number"

\* C16: in every response each recommendation's price is a number or null,
\* never a raw unparsed currency string, whatever MRP string the pricing
\* service returned.
C16_PriceNumberOrNull ==
    reconciler.returned =>
        \A i \in 1..Len(reconciler.recs) :
            reconciler.recs[i].price.kind \in {"number", "null"}

\* C17: in every successful response each recommendation's category is one
\* of the five fixed category values; a generated category outside the set
\* is not forwarded as a successful result.
C17_CategoryInEnum ==
    (pc = "responded" /\ exc = NoException) =>
        \A k \in 1..Len(response.recommendations) :
            response.recommendations[k].category \in Categories

\* The whole text of the i-th product's document, before the cut.
Blob(i) ==
    Strip(Join(Lines(catalog[i],
                     IF backend = "main" THEN ReviewsDict(ReviewFile(FALSE, <<>>)).value
                     ELSE ReviewsDict(reviews).value)))

\* C18: every document a loader produces has length at most max_characters,
\* for every product and every max_characters >= 0: a text longer than the
\* cap is cut to exactly its first max_characters characters, a shorter one
\* is kept whole.
C18_DocumentsCapped ==
    load_result.kind = "return" =>
        /\ Len(load_result.value.corpus) = Len(catalog)
        /\ \A i \in 1..Len(catalog) :
              LET doc == load_result.value.corpus[i]
              IN  /\ Len(doc) <= max_chars
                  /\ Len(Blob(i)) > max_chars => doc = SubSeq(Blob(i), 1, max_chars)
                  /\ Len(Blob(i)) <= max_chars => doc = Blob(i)

\* Witness: a corpus with a document cut in the middle of its review block,
\* to exactly max_characters, next to one kept whole.
C18_Witness ==
    /\ load_result.kind = "return" /\ Len(catalog) = 2
    /\ max_chars > 0
    /\ Len(Blob(1)) > max_chars
    /\ Len(load_result.value.corpus[1]) = max_chars
    /\ load_result.value.corpus[1][max_chars] = "--- Amazon Reviews ---"
    /\ load_result.value.corpus[2] = Blob(2)

\* The review file is read and one of its lines has not four fields.
Malformed(file) == file.given /\ \E k \in 1..Len(file.lines) : Len(file.lines[k]) # 4

\* The i-th product's material has a record in the review file.
Matched(i) == catalog[i].material \in DOMAIN ReviewsDict(reviews).value

\* C19: a call of the review-aware loader yields, for every product without
\* a review record (also when no review file is given), has_reviews false
\* and a document without the "--- Amazon Reviews ---" block, and has_reviews
\* true exactly for the products with a matching record (the review file
\* being well-formed).
C19_ReviewFlagMirrorsMatch ==
    (load_result # NotLoaded /\ backend # "main" /\ ~Malformed(reviews)) =>
        /\ load_result.kind = "return"
        /\ \A i \in 1..Len(catalog) :
              /\ load_result.value.metadata[i].has_reviews = Matched(i)
              /\ ~Matched(i) =>
                    \A k \in 1..Len(load_result.value.corpus[i]) :
                        load_result.value.corpus[i][k] # "--- Amazon Reviews ---"

\* C20: after the ingestion of a loaded corpus into the empty collection the
\* i-th catalog product's document is stored with the i-th metadata record
\* under id i (from 0), the ids are distinct and the stored count is the
\* number of catalog products, for every catalog size and batch size.
C20_PositionalCorrespondence ==
    last_run.ran =>
        /\ Len(load_result.value.corpus) = Len(catalog)
        /\ Len(load_result.value.metadata) = Len(catalog)
        /\ DOMAIN collection = 0..(Len(catalog) - 1)
        /\ Count(collection) = Len(catalog)
        /\ \A i \in 1..Len(catalog) :
              /\ collection[i - 1] = Point(load_result.value.corpus[i],
                                           load_result.value.metadata[i])
              /\ backend # "main" =>
                    collection[i - 1].metadata.product_id = ProductKey(i)

\* Witness: the batched loader has stored a catalog larger than its batch
\* size, in more than one upsert, the stored points differing.
C20_Witness ==
    /\ last_run.ran /\ backend = "qdrant"
    /\ batch < Len(catalog)
    /\ last_run.writes > 1
    /\ Count(collection) = Len(catalog)
    /\ collection[0].document # collection[1].document

\* C21: a review line whose field count is not four aborts the whole
\* ingestion.  The load of a review file with such a line raises ValueError,
\* whatever well-formed lines stand before or after it, and nothing of that
\* run is written: the collection stays empty and the store step cannot run.
C21_MalformedLineAborts ==
    (load_result # NotLoaded /\ backend # "main" /\ Malformed(reviews)) =>
        /\ load_result = Raise("ValueError")
        /\ collection = EmptyCollection
        /\ ~last_run.ran
        /\ ~ENABLED store_products

\* Witness: the product_ingestion loader has raised on a file whose first
\* line is well-formed, and matches a product, and whose second is not.
C21_Witness ==
    /\ backend = "chroma"
    /\ load_result = Raise("ValueError")
    /\ reviews.lines = <<ReviewLine("M1"), LongLine>>
    /\ \E i \in 1..Len(catalog) : catalog[i].material = "M1"
    /\ collection = EmptyCollection

\* C22: the text sent to retrieval and the question input of the generation
\* stage are both the enhanced question; the raw request question is the
\* input of the enhancement stage only.
C22_EnhancedQuestionUsed ==
    /\ query # "" => query = EnhanceQuestion(request.question)
    /\ gen_input # NoGenInput => gen_input.question = EnhanceQuestion(request.question)

\* C23: in every successful response service_history.frequency equals
\* purchase_patterns.frequency, both being the frequency field of the model
\* output.
C23_OneFrequency ==
    (pc = "responded" /\ exc = NoException) =>
        /\ response.service_history.frequency = response.purchase_patterns.frequency
        /\ response.purchase_patterns.frequency = result.frequency

\* Witness: a successful response built from a model output whose frequency
\* is "monthly" and whose maintenance_type is another text.
C23_Witness ==
    /\ pc = "responded" /\ exc = NoException
    /\ result.frequency = "monthly"
    /\ result.maintenance_type # result.frequency
    /\ response.service_history.frequency = "monthly"


====
